---- MODULE Spec2Model ----
\* Restriction-enzyme digestion (python.py): RestrictionEnzyme, DNADigest and
\* print_digest_results, modelled as one call of an operation on chosen
\* arguments followed, for digest_dna, by printing its result.
\*
\* A Python str is a sequence of one-character strings; a list is a sequence;
\* a dict is a record; an optional int (None or a value) is <<>> or <<v>>.
\* A call's outcome is Return(v) or Raise(exception, message).
EXTENDS Integers, Sequences, FiniteSets, TLC

\* pc      where main() stands: "start", "returned" (after the call of lines
\*         347/352), "printed" (after print_digest_results, line 348)
\* call    the operation called and its arguments
\* result  what the call returned or raised
\* stdout  the lines print_digest_results printed and the exception ending it
VARIABLES pc, call, result, stdout

vars == <<pc, call, result, stdout>>

-----------------------------------------------------------------------------
\* Bounds of the arguments.

MaxSeqLen == 4
MaxRawLen == 3
MaxPatLen == 2
MaxCut == 3
MaxEnzymes == 2

Strings(chars, n) == UNION {[1..k -> chars] : k \in 0..n}

None == <<>>
Some(v) == <<v>>

\* Sequences over two bases (long enough for overlapping and adjacent sites)
\* and short raw sequences with lowercase letters, whitespace and a character
\* outside the alphabet.
SeqBases == {"A", "T"}
RawChars == {"a", " ", "\n", "\t", "\r", "X"}
SequenceArgs == Strings(SeqBases, MaxSeqLen) \cup Strings(RawChars, MaxRawLen)

\* Patterns over two bases, one of them lowercase, and patterns with a
\* character outside the alphabet.
PatBases == {"A", "t"}
InvalidPatterns == {<<"N">>, <<"A", "N">>}
PatternArgs == Strings(PatBases, MaxPatLen) \cup InvalidPatterns

CutArgs == (0 - 1)..MaxCut
Cut3Args == {None, Some(1)}

\* Descriptors (name, recognition_seq, cut_pos_5[, cut_pos_3]) for
\* multiple_digest: coincident cuts (EnzA and EnzT on "AT"), cuts that leave
\* the sequence on either side, an invalid and an empty pattern.
EnzymePanel ==
    { <<"EnzA", <<"A">>, 1>>,
      <<"EnzT", <<"t">>, 0>>,
      <<"Far", <<"A", "T">>, 3, 1>>,
      <<"Neg", <<"A">>, 0 - 1>>,
      <<"Bad", <<"N">>, 0>>,
      <<"Empty", <<>>, 0>> }
EnzymeLists == Strings(EnzymePanel, MaxEnzymes)

-----------------------------------------------------------------------------
\* Python built-ins used by the code.

Min(a, b) == IF a < b THEN a ELSE b
Max(a, b) == IF a > b THEN a ELSE b

\* s[a:b]: indices are clamped to the string, negative ones count from the end.
SliceIndex(s, i) == IF i < 0 THEN Max(i + Len(s), 0) ELSE Min(i, Len(s))
Slice(s, a, b) ==
    LET lo == SliceIndex(s, a)
        hi == SliceIndex(s, b)
    IN  IF lo >= hi THEN <<>> ELSE SubSeq(s, lo + 1, hi)

\* str.upper() on the characters of the argument sets.
UpperChar(c) ==
    CASE c = "a" -> "A"
      [] c = "t" -> "T"
      [] c = "c" -> "C"
      [] c = "g" -> "G"
      [] c = "n" -> "N"
      [] c = "x" -> "X"
      [] OTHER -> c
Upper(s) == [i \in 1..Len(s) |-> UpperChar(s[i])]

\* s.replace(ch, '')
Remove(s, ch) == SelectSeq(s, LAMBDA c : c # ch)

\* sorted(list): insertion sort, stable.
RECURSIVE InsertSorted(_, _)
InsertSorted(sorted, x) ==
    IF sorted = <<>> THEN <<x>>
    ELSE IF x < Head(sorted) THEN <<x>> \o sorted
    ELSE <<Head(sorted)>> \o InsertSorted(Tail(sorted), x)
RECURSIVE Sorted(_)
Sorted(list) ==
    IF list = <<>> THEN <<>>
    ELSE InsertSorted(Sorted(SubSeq(list, 1, Len(list) - 1)), list[Len(list)])

\* set(list)
SetOf(list) == {list[i] : i \in 1..Len(list)}

\* sorted(a set of ints)
RECURSIVE SortedSet(_)
SortedSet(S) ==
    IF S = {} THEN <<>>
    ELSE LET m == CHOOSE x \in S : \A y \in S : x <= y
         IN  <<m>> \o SortedSet(S \ {m})

Return(v) == [raised |-> "none", value |-> v]
Raise(e, m) == [raised |-> e, message |-> m]


-----------------------------------------------------------------------------
\* class RestrictionEnzyme

RestrictionEnzyme(name, recognition_seq, cut_pos_5, cut_pos_3) ==
    [name |-> name,
     recognition_seq |-> Upper(recognition_seq),
     cut_pos_5 |-> cut_pos_5,
     cut_pos_3 |-> IF cut_pos_3 # None THEN cut_pos_3[1] ELSE cut_pos_5]

\* Variant: the two overhang labels exchanged.
get_overhang_type_swapped(self) ==
    IF self.cut_pos_5 = self.cut_pos_3 THEN "blunt"
    ELSE IF self.cut_pos_5 > self.cut_pos_3 THEN "3' overhang"
    ELSE "5' overhang"

get_overhang_type(self) ==
    IF self.cut_pos_5 = self.cut_pos_3 THEN "blunt"
    ELSE IF self.cut_pos_5 > self.cut_pos_3 THEN "5' overhang"
    ELSE "3' overhang"

-----------------------------------------------------------------------------
\* class DNADigest

valid_bases == {"A", "T", "C", "G"}

\* dna_seq.upper().replace(' ', '').replace('\n', '').replace('\t', '')
NormalizeDna(dna_seq) == Remove(Remove(Remove(Upper(dna_seq), " "), "\n"), "\t")

AllValid(s) == \A i \in 1..Len(s) : s[i] \in valid_bases

\* Variant: the scan resumes after the end of a match, so overlapping
\* occurrences are missed.
RECURSIVE ScanSitesSkipAhead(_, _, _, _)
ScanSitesSkipAhead(dna_seq, recognition_seq, i, sites) ==
    IF i >= Len(dna_seq) - Len(recognition_seq) + 1 THEN sites
    ELSE IF Slice(dna_seq, i, i + Len(recognition_seq)) = recognition_seq
    THEN ScanSitesSkipAhead(dna_seq, recognition_seq,
                            i + Max(Len(recognition_seq), 1), Append(sites, i))
    ELSE ScanSitesSkipAhead(dna_seq, recognition_seq, i + 1, sites)

\* for i in range(len(dna_seq) - len(recognition_seq) + 1): ...
RECURSIVE ScanSites(_, _, _, _)
ScanSites(dna_seq, recognition_seq, i, sites) ==
    IF i >= Len(dna_seq) - Len(recognition_seq) + 1 THEN sites
    ELSE ScanSites(dna_seq, recognition_seq, i + 1,
                   IF Slice(dna_seq, i, i + Len(recognition_seq)) = recognition_seq
                   THEN Append(sites, i)
                   ELSE sites)

find_restriction_sites(dna_seq_in, recognition_seq_in) ==
    LET dna_seq == NormalizeDna(dna_seq_in)
        recognition_seq == Upper(recognition_seq_in)
    IN  IF ~AllValid(dna_seq)
        THEN Raise("ValueError",
                   "DNA sequence contains invalid characters. Use only A, T, C, G.")
        ELSE IF ~AllValid(recognition_seq)
        THEN Raise("ValueError",
                   "Recognition sequence contains invalid characters. Use only A, T, C, G.")
        ELSE Return(ScanSites(dna_seq, recognition_seq, 0, <<>>))

\* Variant: the upper end of the range is not checked.
RECURSIVE DigestCutPositionsNoUpperBound(_, _, _)
DigestCutPositionsNoUpperBound(sites, cut_pos_5, length) ==
    IF sites = <<>> THEN <<>>
    ELSE LET cut_pos == Head(sites) + cut_pos_5
             rest == DigestCutPositionsNoUpperBound(Tail(sites), cut_pos_5, length)
         IN  IF 0 <= cut_pos THEN <<cut_pos>> \o rest ELSE rest

\* digest_dna: for site in sites: cut_pos = site + cut_pos_5; keep it if it
\* lies in the sequence.
RECURSIVE DigestCutPositions(_, _, _)
DigestCutPositions(sites, cut_pos_5, length) ==
    IF sites = <<>> THEN <<>>
    ELSE LET cut_pos == Head(sites) + cut_pos_5
             rest == DigestCutPositions(Tail(sites), cut_pos_5, length)
         IN  IF 0 <= cut_pos /\ cut_pos <= length THEN <<cut_pos>> \o rest ELSE rest

\* Variant: the cursor is not moved to the cut, so every fragment starts at 0.
RECURSIVE DigestFragmentsNoAdvance(_, _, _, _)
DigestFragmentsNoAdvance(dna_seq, cuts, start, fragments) ==
    IF cuts = <<>>
    THEN IF start < Len(dna_seq)
         THEN Append(fragments, Slice(dna_seq, start, Len(dna_seq)))
         ELSE fragments
    ELSE LET cut_pos == Head(cuts)
         IN  DigestFragmentsNoAdvance(dna_seq, Tail(cuts), start,
                                      IF start < cut_pos
                                      THEN Append(fragments, Slice(dna_seq, start, cut_pos))
                                      ELSE fragments)

\* digest_dna: the walk over sorted(cut_positions) and the final fragment.
RECURSIVE DigestFragments(_, _, _, _)
DigestFragments(dna_seq, cuts, start, fragments) ==
    IF cuts = <<>>
    THEN IF start < Len(dna_seq)
         THEN Append(fragments, Slice(dna_seq, start, Len(dna_seq)))
         ELSE fragments
    ELSE LET cut_pos == Head(cuts)
         IN  DigestFragments(dna_seq, Tail(cuts), cut_pos,
                             IF start < cut_pos
                             THEN Append(fragments, Slice(dna_seq, start, cut_pos))
                             ELSE fragments)

\* [f for f in fragments if f]
RemoveEmpty(fragments) == SelectSeq(fragments, LAMBDA f : f # <<>>)

Lengths(fragments) == [i \in 1..Len(fragments) |-> Len(fragments[i])]

digest_dna(dna_seq_in, recognition_seq, cut_pos_5, cut_pos_3_in, enzyme_name) ==
    LET dna_seq == NormalizeDna(dna_seq_in)
        found == find_restriction_sites(dna_seq, recognition_seq)
    IN  IF found.raised # "none" THEN found
        ELSE
        LET sites == found.value
            cut_pos_3 == IF cut_pos_3_in = None THEN cut_pos_5 ELSE cut_pos_3_in[1]
            temp_enzyme ==
                RestrictionEnzyme(enzyme_name, recognition_seq, cut_pos_5, Some(cut_pos_3))
        IN  IF sites = <<>>
            THEN Return([enzyme |-> enzyme_name,
                         recognition_sequence |-> recognition_seq,
                         cut_sites |-> <<>>,
                         fragments |-> <<dna_seq>>,
                         fragment_lengths |-> <<Len(dna_seq)>>,
                         overhang_type |-> get_overhang_type(temp_enzyme),
                         total_sites |-> 0])
            ELSE
            LET cut_positions == DigestCutPositions(sites, cut_pos_5, Len(dna_seq))
                fragments ==
                    RemoveEmpty(DigestFragments(dna_seq, Sorted(cut_positions), 0, <<>>))
            IN  Return([enzyme |-> enzyme_name,
                        recognition_sequence |-> recognition_seq,
                        cut_sites |-> cut_positions,
                        fragments |-> fragments,
                        fragment_lengths |-> Lengths(fragments),
                        overhang_type |-> get_overhang_type(temp_enzyme),
                        total_sites |-> Len(sites),
                        recognition_sites |-> sites])

\* multiple_digest: [site + cut_pos_5 for site in sites
\*                   if 0 <= site + cut_pos_5 <= len(dna_seq)]
MultiCutPositions(sites, cut_pos_5, length) ==
    LET kept == SelectSeq(sites, LAMBDA site :
                    0 <= site + cut_pos_5 /\ site + cut_pos_5 <= length)
    IN  [i \in 1..Len(kept) |-> kept[i] + cut_pos_5]

\* multiple_digest: the loop over enzymes_data, from its k-th element on.
RECURSIVE MultiLoop(_, _, _, _, _)
MultiLoop(dna_seq, enzymes_data, k, all_cuts, enzyme_info) ==
    IF k > Len(enzymes_data)
    THEN Return([all_cuts |-> all_cuts, enzyme_info |-> enzyme_info])
    ELSE
    LET enzyme_data == enzymes_data[k]
        name == enzyme_data[1]
        recognition_seq == enzyme_data[2]
        cut_pos_5 == enzyme_data[3]
        cut_pos_3 == IF Len(enzyme_data) > 3 THEN enzyme_data[4] ELSE cut_pos_5
        found == find_restriction_sites(dna_seq, recognition_seq)
    IN  IF found.raised # "none" THEN found
        ELSE
        LET sites == found.value
            cut_positions == MultiCutPositions(sites, cut_pos_5, Len(dna_seq))
        IN  MultiLoop(dna_seq, enzymes_data, k + 1,
                      all_cuts \o cut_positions,
                      Append(enzyme_info,
                             [name |-> name,
                              recognition_seq |-> recognition_seq,
                              sites |-> Len(sites),
                              cut_positions |-> cut_positions]))

\* Variant: sorted(all_cuts), the duplicates kept.
SortAllCutsKeepDuplicates(all_cuts) == Sorted(all_cuts)

\* all_cuts = sorted(set(all_cuts))
SortAllCuts(all_cuts) == SortedSet(SetOf(all_cuts))

\* multiple_digest: the walk over all_cuts and the final fragment.
RECURSIVE MultiFragments(_, _, _, _)
MultiFragments(dna_seq, cuts, start, fragments) ==
    IF cuts = <<>>
    THEN IF start < Len(dna_seq)
         THEN Append(fragments, Slice(dna_seq, start, Len(dna_seq)))
         ELSE fragments
    ELSE LET cut_pos == Head(cuts)
         IN  MultiFragments(dna_seq, Tail(cuts), cut_pos,
                            IF start < cut_pos
                            THEN Append(fragments, Slice(dna_seq, start, cut_pos))
                            ELSE fragments)

multiple_digest(dna_seq_in, enzymes_data) ==
    LET dna_seq == NormalizeDna(dna_seq_in)
        looped == MultiLoop(dna_seq, enzymes_data, 1, <<>>, <<>>)
    IN  IF looped.raised # "none" THEN looped
        ELSE
        LET all_cuts == SortAllCuts(looped.value.all_cuts)
            fragments == MultiFragments(dna_seq, all_cuts, 0, <<>>)
        IN  Return([enzymes |-> looped.value.enzyme_info,
                    total_cuts |-> Len(all_cuts),
                    cut_positions |-> all_cuts,
                    fragments |-> fragments,
                    fragment_lengths |-> Lengths(fragments)])

-----------------------------------------------------------------------------
\* print_digest_results: the lines printed, and the exception that ends it.

FragmentLines(results) ==
    LET line(i) ==
            LET fragment == results.fragments[i]
                length == results.fragment_lengths[i]
            IN  << <<"Fragment", i, length>>,
                   IF length <= 60
                   THEN <<"Sequence", fragment>>
                   ELSE <<"Sequence", Slice(fragment, 0, 30), "...",
                          Slice(fragment, 0 - 30, Len(fragment))>> >>
        RECURSIVE upto(_)
        upto(n) == IF n = 0 THEN <<>> ELSE upto(n - 1) \o line(n)
    IN  upto(Min(Len(results.fragments), Len(results.fragment_lengths)))

print_digest_results(results) ==
    LET header == << <<"=== Digest Results", results.enzyme>>,
                     <<"Recognition Sequence", results.recognition_sequence>>,
                     <<"Overhang Type", results.overhang_type>>,
                     <<"Recognition Sites Found", results.total_sites>> >>
    IN  IF "recognition_sites" \notin DOMAIN results
        THEN [lines |-> header, raised |-> "KeyError", key |-> "recognition_sites"]
        ELSE [lines |-> header
                        \o (IF results.recognition_sites # <<>>
                            THEN << <<"Recognition Site Positions",
                                      results.recognition_sites>>,
                                    <<"Cut Positions", results.cut_sites>> >>
                            ELSE <<>>)
                        \o << <<"Fragments Generated", Len(results.fragments)>> >>
                        \o FragmentLines(results),
              raised |-> "none"]

-----------------------------------------------------------------------------
\* The state machine: one call on chosen arguments, then the printing of a
\* digest_dna result.

NoCall == [op |-> "none"]
NoResult == [raised |-> "not called"]
NoOutput == [lines |-> <<>>, raised |-> "none"]

Init ==
    /\ pc = "start"
    /\ call = NoCall
    /\ result = NoResult
    /\ stdout = NoOutput

CallFindRestrictionSites ==
    /\ pc = "start"
    /\ \E dna_seq \in SequenceArgs, recognition_seq \in PatternArgs :
          /\ call' = [op |-> "find_restriction_sites",
                      dna_seq |-> dna_seq,
                      recognition_seq |-> recognition_seq]
          /\ result' = find_restriction_sites(dna_seq, recognition_seq)
    /\ pc' = "returned"
    /\ UNCHANGED stdout

CallDigestDna ==
    /\ pc = "start"
    /\ \E dna_seq \in SequenceArgs, recognition_seq \in PatternArgs,
          cut_pos_5 \in CutArgs, cut_pos_3 \in Cut3Args :
          /\ call' = [op |-> "digest_dna",
                      dna_seq |-> dna_seq,
                      recognition_seq |-> recognition_seq,
                      cut_pos_5 |-> cut_pos_5,
                      cut_pos_3 |-> cut_pos_3]
          /\ result' = digest_dna(dna_seq, recognition_seq, cut_pos_5, cut_pos_3, "Custom")
    /\ pc' = "returned"
    /\ UNCHANGED stdout

CallMultipleDigest ==
    /\ pc = "start"
    /\ \E dna_seq \in SequenceArgs, enzymes_data \in EnzymeLists :
          /\ call' = [op |-> "multiple_digest",
                      dna_seq |-> dna_seq,
                      enzymes_data |-> enzymes_data]
          /\ result' = multiple_digest(dna_seq, enzymes_data)
    /\ pc' = "returned"
    /\ UNCHANGED stdout

PrintDigestResults ==
    /\ pc = "returned"
    /\ call.op = "digest_dna"
    /\ result.raised = "none"
    /\ stdout' = print_digest_results(result.value)
    /\ pc' = "printed"
    /\ UNCHANGED <<call, result>>

Next ==
    \/ CallFindRestrictionSites
    \/ CallDigestDna
    \/ CallMultipleDigest
    \/ PrintDigestResults

Spec == Init /\ [][Next]_vars

-----------------------------------------------------------------------------
\* Vocabulary of the properties, defined without the operators of the program.

Called(op) == pc # "start" /\ call.op = op
Returned(op) == Called(op) /\ result.raised = "none"
Digested == Returned("digest_dna") \/ Returned("multiple_digest")

RECURSIVE Concat(_)
Concat(fragments) ==
    IF fragments = <<>> THEN <<>> ELSE Head(fragments) \o Concat(Tail(fragments))

RECURSIVE SumTo(_, _)
SumTo(lengths, j) == IF j = 0 THEN 0 ELSE SumTo(lengths, j - 1) + lengths[j]

StrictlyIncreasing(list) == \A i \in 1..(Len(list) - 1) : list[i] < list[i + 1]

\* The offsets at which pattern occurs in sequence.
MatchOffsets(sequence, pattern) ==
    {i \in 0..(Len(sequence) - Len(pattern)) :
        \A k \in 1..Len(pattern) : sequence[i + k] = pattern[k]}

\* The cut coordinates of one enzyme that lie in the sequence.
ExpectedCuts(sequence, pattern, cut5) ==
    {c \in 0..Len(sequence) : \E s \in MatchOffsets(sequence, pattern) : c = s + cut5}

\* The sequence, uppercased, with all whitespace removed.
Whitespace == {" ", "\t", "\n", "\r", "\f"}
PreNormalized(raw) == SelectSeq(Upper(raw), LAMBDA c : c \notin Whitespace)

TheSequence == NormalizeDna(call.dna_seq)

\* The cut coordinates a digest result reports.
ReportedCuts ==
    IF call.op = "digest_dna" THEN SetOf(result.value.cut_sites)
    ELSE SetOf(result.value.cut_positions)
InnerCuts == {c \in ReportedCuts : 0 < c /\ c < Len(TheSequence)}

-----------------------------------------------------------------------------
\* C1: for every sequence, the empty one included, the fragments a digest
\* returns concatenate to the normalized sequence and none of them is empty.
\* digest_dna of a sequence that normalizes to "" returns the fragment list [""].
C1_Partition ==
    Digested =>
        /\ Concat(result.value.fragments) = TheSequence
        /\ \A i \in 1..Len(result.value.fragments) : result.value.fragments[i] # <<>>

\* C2: the fragments are cut exactly at the reported cut coordinates: the inner
\* fragment boundaries are the reported coordinates strictly inside the
\* sequence, each fragment is the substring between two consecutive boundaries,
\* a non-empty sequence with k inner coordinates gives k + 1 fragments, and a
\* cut at 0 or at len(sequence) adds none.
C2_CutsAreBoundaries ==
    Digested =>
        LET fragments == result.value.fragments
            lengths == result.value.fragment_lengths
            boundaries == {SumTo(lengths, j) : j \in 0..Len(fragments)}
        IN  /\ lengths = [j \in 1..Len(fragments) |-> Len(fragments[j])]
            /\ boundaries \ {0, Len(TheSequence)} = InnerCuts
            /\ \A j \in 1..Len(fragments) :
                  fragments[j] = [k \in 1..lengths[j] |->
                                     TheSequence[SumTo(lengths, j - 1) + k]]
            /\ Len(TheSequence) > 0 => Len(fragments) = Cardinality(InnerCuts) + 1

C2_Witness ==
    /\ Digested
    /\ InnerCuts # {}
    /\ 0 \in ReportedCuts
    /\ Len(TheSequence) \in ReportedCuts

\* C3: for a valid sequence and a non-empty valid pattern,
\* find_restriction_sites returns exactly the offsets at which the pattern
\* occurs, overlapping occurrences included, strictly increasing; a pattern
\* longer than the sequence gives the empty list and no failure.
C3_FindSites ==
    (/\ Called("find_restriction_sites")
     /\ AllValid(TheSequence)
     /\ AllValid(Upper(call.recognition_seq))
     /\ call.recognition_seq # <<>>) =>
        /\ result.raised = "none"
        /\ SetOf(result.value) = MatchOffsets(TheSequence, Upper(call.recognition_seq))
        /\ StrictlyIncreasing(result.value)
        /\ Len(call.recognition_seq) > Len(TheSequence) => result.value = <<>>

C3_Witness ==
    /\ Returned("find_restriction_sites")
    /\ TheSequence = <<"A", "A", "A", "A">>
    /\ Upper(call.recognition_seq) = <<"A", "A">>
    /\ result.value = <<0, 1, 2>>

\* C4: in multiple_digest the merged cut_positions list enumerates, strictly
\* ascending, the union of the enzymes' cut coordinates; total_cuts is the number
\* of distinct coordinates; no fragment is empty; and every ordering of the
\* descriptors gives the same merged list and the same fragments.
Reordered(list, p) == [i \in 1..Len(list) |-> list[p[i]]]

C4_MergedCuts ==
    Returned("multiple_digest") =>
        LET v == result.value
            data == call.enzymes_data
            union == UNION {ExpectedCuts(TheSequence, Upper(data[k][2]), data[k][3]) :
                               k \in 1..Len(data)}
        IN  /\ StrictlyIncreasing(v.cut_positions)
            /\ SetOf(v.cut_positions) = union
            /\ SetOf(v.cut_positions) =
                  UNION {SetOf(v.enzymes[k].cut_positions) : k \in 1..Len(v.enzymes)}
            /\ v.total_cuts = Cardinality(union)
            /\ \A i \in 1..Len(v.fragments) : v.fragments[i] # <<>>
            /\ \A p \in Permutations(1..Len(data)) :
                  LET other == multiple_digest(call.dna_seq, Reordered(data, p))
                  IN  /\ other.raised = "none"
                      /\ other.value.cut_positions = v.cut_positions
                      /\ other.value.fragments = v.fragments

C4_Witness ==
    /\ Returned("multiple_digest")
    /\ Len(call.enzymes_data) = 2
    /\ call.enzymes_data[1] # call.enzymes_data[2]
    /\ \E c \in 1..(Len(TheSequence) - 1) :
          /\ c \in SetOf(result.value.enzymes[1].cut_positions)
          /\ c \in SetOf(result.value.enzymes[2].cut_positions)

\* C5: digest_dna and multiple_digest raise ValueError whenever the normalized
\* sequence or a descriptor's recognition pattern has a character outside
\* {A,T,C,G}, for any list of descriptors.
\* multiple_digest with an empty list of descriptors validates nothing.
C5_InvalidAlphabetRejected ==
    /\ (Called("digest_dna")
        /\ (~AllValid(TheSequence) \/ ~AllValid(Upper(call.recognition_seq))))
       => result.raised = "ValueError"
    /\ (Called("multiple_digest")
        /\ (\/ ~AllValid(TheSequence)
            \/ \E k \in 1..Len(call.enzymes_data) :
                  ~AllValid(Upper(call.enzymes_data[k][2]))))
       => result.raised = "ValueError"

\* C6: the cut coordinates reported by digest_dna (cut_sites) and by
\* multiple_digest (per enzyme and merged) are exactly the values s + cut5, s a
\* recognition site of the enzyme, that lie in 0..len(sequence), for negative
\* and for large cut5 alike; the others are dropped and nothing is raised.
C6_CutsInRange ==
    /\ (Called("digest_dna")
        /\ AllValid(TheSequence) /\ AllValid(Upper(call.recognition_seq))) =>
          /\ result.raised = "none"
          /\ SetOf(result.value.cut_sites) =
                ExpectedCuts(TheSequence, Upper(call.recognition_seq), call.cut_pos_5)
    /\ (Called("multiple_digest")
        /\ AllValid(TheSequence)
        /\ \A k \in 1..Len(call.enzymes_data) :
              AllValid(Upper(call.enzymes_data[k][2]))) =>
          /\ result.raised = "none"
          /\ Len(result.value.enzymes) = Len(call.enzymes_data)
          /\ \A k \in 1..Len(call.enzymes_data) :
                SetOf(result.value.enzymes[k].cut_positions) =
                    ExpectedCuts(TheSequence, Upper(call.enzymes_data[k][2]),
                                 call.enzymes_data[k][3])
          /\ \A c \in SetOf(result.value.cut_positions) :
                /\ 0 <= c /\ c <= Len(TheSequence)
                /\ \E k \in 1..Len(call.enzymes_data) :
                      c \in ExpectedCuts(TheSequence, Upper(call.enzymes_data[k][2]),
                                         call.enzymes_data[k][3])

\* A digest_dna call that keeps one coordinate and drops one on each side.
C6_Witness ==
    /\ Returned("digest_dna")
    /\ result.value.cut_sites # <<>>
    /\ \E s \in SetOf(result.value.recognition_sites) :
          s + call.cut_pos_5 > Len(TheSequence)
    /\ call.cut_pos_5 > Len(call.recognition_seq)

C6_WitnessNegative ==
    /\ Returned("multiple_digest")
    /\ \E k \in 1..Len(call.enzymes_data) :
          /\ call.enzymes_data[k][3] < 0
          /\ result.value.enzymes[k].sites > Len(result.value.enzymes[k].cut_positions)
          /\ result.value.enzymes[k].cut_positions # <<>>

\* C7: when the pattern does not occur, the digest_dna result has site count 0,
\* empty site and cut lists, the whole sequence as its one fragment, and the
\* fields of a result with sites, so that print_digest_results works on it.
\* The result has no recognition_sites field and printing it raises KeyError.
C7_NoSiteResult ==
    (/\ Returned("digest_dna")
     /\ MatchOffsets(TheSequence, Upper(call.recognition_seq)) = {}) =>
        /\ result.value.total_sites = 0
        /\ result.value.cut_sites = <<>>
        /\ result.value.fragments = <<TheSequence>>
        /\ result.value.fragment_lengths = <<Len(TheSequence)>>
        /\ "recognition_sites" \in DOMAIN result.value
        /\ result.value.recognition_sites = <<>>
        /\ pc = "printed" => stdout.raised = "none"

\* C8: digesting a sequence with lowercase letters and whitespace gives the
\* result of digesting the same sequence uppercased with all whitespace removed.
\* Only ' ', '\n' and '\t' are removed; a carriage return stays and is rejected.
InternalWhitespace(raw) ==
    /\ \E i \in 2..(Len(raw) - 1) : raw[i] \in Whitespace
    /\ raw[1] \notin Whitespace
    /\ raw[Len(raw)] \notin Whitespace

C8_NormalizationIdempotent ==
    /\ (Called("digest_dna") /\ InternalWhitespace(call.dna_seq)) =>
          result = digest_dna(PreNormalized(call.dna_seq), call.recognition_seq,
                              call.cut_pos_5, call.cut_pos_3, "Custom")
    /\ (Called("multiple_digest") /\ InternalWhitespace(call.dna_seq)) =>
          result = multiple_digest(PreNormalized(call.dna_seq), call.enzymes_data)

\* With the whitespace limited to the three characters the code removes, the
\* results agree.
C8_RemovedCharacters ==
    (/\ pc # "start"
     /\ call.op \in {"digest_dna", "multiple_digest"}
     /\ \A i \in 1..Len(call.dna_seq) : call.dna_seq[i] # "\r") =>
        /\ call.op = "digest_dna" =>
              result = digest_dna(PreNormalized(call.dna_seq), call.recognition_seq,
                                  call.cut_pos_5, call.cut_pos_3, "Custom")
        /\ call.op = "multiple_digest" =>
              result = multiple_digest(PreNormalized(call.dna_seq), call.enzymes_data)

\* C9: an empty recognition pattern that reaches find_restriction_sites makes
\* the call fail: no list of sites and no digest result is returned.
\* The empty pattern passes validation and matches at every offset 0..len.
C9_EmptyPatternRejected ==
    /\ (Called("find_restriction_sites") /\ call.recognition_seq = <<>>)
       => result.raised # "none"
    /\ (Called("digest_dna") /\ call.recognition_seq = <<>>)
       => result.raised # "none"
    /\ (Called("multiple_digest")
        /\ call.enzymes_data # <<>>
        /\ call.enzymes_data[1][2] = <<>>)
       => result.raised # "none"

\* C10: the overhang type digest_dna reports depends on (cut5, cut3) only, cut3
\* defaulting to cut5: blunt when equal, 5' overhang when cut5 > cut3, 3'
\* overhang when cut5 < cut3, with or without recognition sites.
C10_Overhang ==
    Returned("digest_dna") =>
        LET cut5 == call.cut_pos_5
            cut3 == IF call.cut_pos_3 = None THEN cut5 ELSE call.cut_pos_3[1]
        IN  result.value.overhang_type =
                CASE cut5 = cut3 -> "blunt"
                  [] cut5 > cut3 -> "5' overhang"
                  [] cut5 < cut3 -> "3' overhang"

C10_Witness ==
    /\ Returned("digest_dna")
    /\ result.value.total_sites = 0
    /\ call.cut_pos_3 # None
    /\ call.cut_pos_5 > call.cut_pos_3[1]
    /\ result.value.overhang_type = "5' overhang"

=============================================================================
